---- MODULE Spec2Model ----
(***************************************************************************)
(* Model of course_setup_md.py: a command-line utility that prompts for a  *)
(* course, its sections and subsections, and writes a tree of markdown     *)
(* files.  Text is a string; slugs, title case, numbers, paths and page    *)
(* contents are computed character by character as the code computes them. *)
(***************************************************************************)
EXTENDS Integers, Sequences, FiniteSets, TLC

(***************************************************************************)
(* Bounds of the model.                                                    *)
(***************************************************************************)
MaxSections == 2
MaxSubsections == 2
MaxRetries == 1
MaxWords == 3

\* Python's None is <<>> and a value v that may be None is <<v>>.
None == <<>>
Some(v) == <<v>>
\* the exit status of a process that has not exited
Running == -1

(***************************************************************************)
(* Inputs: command-line values and the lines typed at each prompt.         *)
(***************************************************************************)
ExtraArgs == { None, Some(""), Some("# x\\ny") }

NumberEntries == { "", "x", "0", " 7 " }

CourseTitleEntries == { " ", " of: a/B " }

ShortTitleEntries == { "CS " }

SectionTitleEntries == { " ii To x ", "a,b" }

SubsectionTitleEntries == { "Q(r)", "the end\t" }

\* Texts handed to handle_title and generate_slug on their own: up to
\* MaxWords words separated by whitespace.  The empty word gives leading,
\* trailing and longer runs of whitespace.
Words == { "", "the", "ii", "Q(r)", "a/B:", "it's!", "x,y?" }

Separators == { " ", "\t" }

RECURSIVE TextsOf(_)
TextsOf(n) ==
  IF n = 0 THEN { "" }
  ELSE IF n = 1 THEN Words
  ELSE { t \o s \o w : t \in TextsOf(n - 1), s \in Separators, w \in Words }

Texts == UNION { TextsOf(n) : n \in 0..MaxWords }

(***************************************************************************)
(* Program constants.                                                      *)
(***************************************************************************)
INDEX_PAGE == 0
FLASHCARDS_PAGE == 99

(***************************************************************************)
(* Text primitives (str methods and f-string formatting).                  *)
(***************************************************************************)
LowerLetters == <<"a","b","c","d","e","f","g","h","i","j","k","l","m",
                  "n","o","p","q","r","s","t","u","v","w","x","y","z">>
UpperLetters == <<"A","B","C","D","E","F","G","H","I","J","K","L","M",
                  "N","O","P","Q","R","S","T","U","V","W","X","Y","Z">>
Digits == <<"0","1","2","3","4","5","6","7","8","9">>
Whitespace == {" ", "\t", "\n"}

ToLowerTable ==
  [c \in {UpperLetters[i] : i \in 1..26} |->
     LowerLetters[CHOOSE i \in 1..26 : UpperLetters[i] = c]]
ToUpperTable ==
  [c \in {LowerLetters[i] : i \in 1..26} |->
     UpperLetters[CHOOSE i \in 1..26 : LowerLetters[i] = c]]

CharLower(c) == IF c \in DOMAIN ToLowerTable THEN ToLowerTable[c] ELSE c

CharUpper(c) == IF c \in DOMAIN ToUpperTable THEN ToUpperTable[c] ELSE c

\* the i-th character of s
CharAt(s, i) == SubSeq(s, i, i)

\* str.lower()
RECURSIVE Lower(_)
Lower(s) == IF s = "" THEN "" ELSE CharLower(Head(s)) \o Lower(Tail(s))

\* str.upper()
RECURSIVE Upper(_)
Upper(s) == IF s = "" THEN "" ELSE CharUpper(Head(s)) \o Upper(Tail(s))

\* str.capitalize(): first character upper-cased, the rest lower-cased
Capitalize(s) == IF s = "" THEN "" ELSE CharUpper(Head(s)) \o Lower(Tail(s))

\* str.strip(): leading and trailing whitespace removed
RECURSIVE LStrip(_)
LStrip(s) ==
  IF s # "" /\ Head(s) \in Whitespace THEN LStrip(Tail(s)) ELSE s

RECURSIVE RStrip(_)
RStrip(s) ==
  IF s # "" /\ CharAt(s, Len(s)) \in Whitespace
  THEN RStrip(SubSeq(s, 1, Len(s) - 1)) ELSE s

Strip(s) == RStrip(LStrip(s))

\* "".join(parts)
RECURSIVE JoinRange(_, _, _)
JoinRange(parts, lo, hi) ==
  IF lo > hi THEN ""
  ELSE IF lo = hi THEN parts[lo]
  ELSE LET mid == (lo + hi) \div 2
       IN JoinRange(parts, lo, mid) \o JoinRange(parts, mid + 1, hi)

Join(parts) == JoinRange(parts, 1, Len(parts))

\* decimal digits of a natural number
RECURSIVE DecDigits(_)
DecDigits(n) ==
  IF n < 10 THEN Digits[n + 1]
  ELSE DecDigits(n \div 10) \o Digits[(n % 10) + 1]

\* f"{n}"
FmtD(n) == IF n < 0 THEN "-" \o DecDigits(0 - n) ELSE DecDigits(n)

\* f"{n:02d}": zero-padded to a minimum width of two, sign included
Fmt02d(n) ==
  IF n < 0 THEN FmtD(n)
  ELSE IF n < 10 THEN "0" \o FmtD(n)
  ELSE FmtD(n)

\* int(text) of a stripped text: an optional sign and decimal digits
IsDigit(c) == \E i \in 1..10 : Digits[i] = c
DigitVal(c) == (CHOOSE i \in 1..10 : Digits[i] = c) - 1

RECURSIVE DigitsVal(_)
DigitsVal(s) ==
  IF s = "" THEN 0
  ELSE DigitsVal(SubSeq(s, 1, Len(s) - 1)) * 10 + DigitVal(CharAt(s, Len(s)))

IsInt(s) ==
  LET body == IF s # "" /\ Head(s) \in {"-", "+"} THEN Tail(s) ELSE s
  IN body # "" /\ \A i \in 1..Len(body) : IsDigit(CharAt(body, i))

ParseInt(s) ==
  IF Head(s) = "-" THEN 0 - DigitsVal(Tail(s))
  ELSE IF Head(s) = "+" THEN DigitsVal(Tail(s))
  ELSE DigitsVal(s)

(***************************************************************************)
(* generate_slug                                                           *)
(***************************************************************************)
\* mutant: the replace of "/" left out
slug_char_slash_kept(c) ==
  CASE c \in {"(", ")", "?", "!", ",", "'"} -> ""
    [] c = " " -> "_"
    [] c = ":" -> "_-"
    [] OTHER   -> CharLower(c)

\* The chain of str.replace calls followed by lower(), applied to one
\* character.  No replacement produces a character that a later replace of
\* the chain looks for, so the chain acts on each character separately.
slug_char(c) ==
  CASE c \in {"(", ")", "?", "!", ",", "'"} -> ""
    [] c = " " -> "_"
    [] c = ":" -> "_-"
    [] c = "/" -> "-"
    [] OTHER   -> CharLower(c)

RECURSIVE generate_slug(_)
generate_slug(title) ==
  IF title = "" THEN "" ELSE slug_char(Head(title)) \o generate_slug(Tail(title))

(***************************************************************************)
(* handle_title                                                            *)
(***************************************************************************)
\* re.split(r"(\s+)", text): words and the whitespace runs between them,
\* alternating, beginning and ending with a (possibly empty) word
RECURSIVE SplitWs(_, _, _)
SplitWs(s, cur, inWs) ==
  IF s = "" THEN (IF inWs THEN <<cur, "">> ELSE <<cur>>)
  ELSE IF (Head(s) \in Whitespace) = inWs
       THEN SplitWs(Tail(s), cur \o Head(s), inWs)
       ELSE <<cur>> \o SplitWs(Tail(s), Head(s), ~inWs)

re_split_ws(text) == SplitWs(text, "", FALSE)

\* (C[MD]|D?C{0,3}), (X[CL]|L?X{0,3}), (I[XV]|V?I{0,3})
RomHundreds == {"", "C", "CC", "CCC", "D", "DC", "DCC", "DCCC", "CM", "CD"}
RomTens     == {"", "X", "XX", "XXX", "L", "LX", "LXX", "LXXX", "XC", "XL"}
RomOnes     == {"", "I", "II", "III", "V", "VI", "VII", "VIII", "IX", "IV"}

RomBelowThousand ==
  { h \o t \o o : h \in RomHundreds, t \in RomTens, o \in RomOnes }

\* M*
RECURSIVE SkipM(_)
SkipM(u) == IF u # "" /\ Head(u) = "M" THEN SkipM(Tail(u)) ELSE u

\* rom_regex.match(part), case-insensitive; the lookahead rejects the
\* empty part
rom_regex(part) ==
  /\ part # ""
  /\ SkipM(Upper(part)) \in RomBelowThousand

lower_case_words ==
  { "a", "an", "the", "and", "but", "or", "nor", "for", "so", "yet", "as",
    "at", "by", "down", "from", "in", "into", "like", "near", "of", "off",
    "on", "onto", "out", "over", "past", "per", "to", "up", "upon", "with",
    "via", "vs" }

\* the body of the loop over parts; first is parts[0]
handle_part(part, first) ==
  IF rom_regex(part) THEN Upper(part)
  ELSE IF part \notin lower_case_words \/ part = first THEN Capitalize(part)
  ELSE Lower(part)

handle_title(text) ==
  LET parts == re_split_ws(text)
  IN Join([i \in 1..Len(parts) |-> handle_part(parts[i], parts[1])])

(***************************************************************************)
(* generate_slug and handle_title are evaluated once for every title the   *)
(* prompts can return, and looked up afterwards.                           *)
(***************************************************************************)
TitleTexts ==
  { Strip(e) : e \in CourseTitleEntries \cup SectionTitleEntries
                     \cup SubsectionTitleEntries }

slug_table == [t \in TitleTexts |-> generate_slug(t)]
title_table == [t \in TitleTexts |-> handle_title(t)]

slug_of(title) ==
  IF title \in TitleTexts THEN slug_table[title] ELSE generate_slug(title)

title_of(text) ==
  IF text \in TitleTexts THEN title_table[text] ELSE handle_title(text)

(***************************************************************************)
(* parse_terminal_text: text.encode().decode("unicode_escape") on ASCII    *)
(* text whose backslashes all begin a two-character escape.                *)
(***************************************************************************)
RECURSIVE unicode_escape(_)
unicode_escape(s) ==
  IF s = "" THEN ""
  ELSE IF Head(s) = "\\" /\ Len(s) >= 2
       THEN (CASE CharAt(s, 2) = "n"  -> "\n"
               [] CharAt(s, 2) = "t"  -> "\t"
               [] CharAt(s, 2) = "\\" -> "\\"
               [] OTHER               -> "\\" \o CharAt(s, 2))
            \o unicode_escape(SubSeq(s, 3, Len(s)))
       ELSE Head(s) \o unicode_escape(Tail(s))

parse_terminal_text(text) ==
  IF text = None THEN None ELSE Some(unicode_escape(text[1]))

(***************************************************************************)
(* render_markdown                                                         *)
(***************************************************************************)
MiscBlock == "## Misc."
DefaultBlock == "## Key Points/Concepts\n\n## Lecture\n\n## Misc."
ReviewDirName == "100-review_files"

\* the text that precedes the table of contents in a rendered page
render_head(title, dates) ==
  "---\n"
  \o "title: \"" \o title \o "\"\n"
  \o "tags: []\n"
  \o (IF dates THEN "dates: []" ELSE "") \o "\n"
  \o "---\n"
  \o "# " \o title \o "\n"
  \o "## TOC\n"

render_markdown(title, table_of_contents, dates, extra) ==
  render_head(title, dates)
  \o table_of_contents \o "\n"
  \o "---\n"
  \o extra

(***************************************************************************)
(* Table-of-contents link lines                                            *)
(***************************************************************************)
\* "- [[<target>|<label>]]\n", indented with a tab when nested
LinkLine(nested, target, label) ==
  (IF nested THEN "\t" ELSE "") \o "- [[" \o target \o "|" \o label \o "]]\n"

CourseLink(course) ==
  LinkLine(FALSE, Fmt02d(INDEX_PAGE) \o "-" \o course.slug,
           course.short_title \o " - " \o title_of(course.course_title))

SectionIndexLink(course, sec_idx, title) ==
  LinkLine(FALSE, Fmt02d(INDEX_PAGE) \o "-" \o slug_of(title),
           course.short_title \o " - " \o Fmt02d(sec_idx) \o "."
           \o Fmt02d(INDEX_PAGE) \o " - " \o title_of(title))

SubsectionLink(course, sec_idx, sub_idx, subsection) ==
  LinkLine(TRUE, Fmt02d(sub_idx) \o "-" \o slug_of(subsection),
           course.short_title \o " - " \o Fmt02d(sec_idx) \o "."
           \o Fmt02d(sub_idx) \o " - " \o title_of(subsection))

\* slugTitle names the linked file, labelTitle the displayed section
FlashcardLink(course, sec_idx, slugTitle, labelTitle) ==
  LinkLine(TRUE, FmtD(FLASHCARDS_PAGE) \o "-flashcards_"
                 \o slug_of(slugTitle),
           course.short_title \o " - " \o Fmt02d(sec_idx) \o "."
           \o FmtD(FLASHCARDS_PAGE) \o " - " \o title_of(labelTitle)
           \o " Flashcards")

FlatSectionLink(course, sec_idx, title) ==
  LinkLine(FALSE, Fmt02d(sec_idx) \o "-" \o slug_of(title),
           course.short_title \o " - " \o Fmt02d(sec_idx)
           \o " - " \o title_of(title))

\* mutant: `section is self` decided by the titles of the two sections
section_toc_entry_by_title(course, self_idx, sec_idx, write_dirs, no_toc) ==
  LET section == course.sections[sec_idx]
      self    == course.sections[self_idx]
  IN IF write_dirs
     THEN <<SectionIndexLink(course, sec_idx, section.section_title)>>
          \o (IF section.section_title = self.section_title
              THEN [k \in 1..Len(self.subsections) |->
                      SubsectionLink(course, sec_idx, k, self.subsections[k])]
                   \o <<FlashcardLink(course, sec_idx, section.section_title,
                                      self.section_title)>>
              ELSE <<>>)
     ELSE IF ~no_toc
          THEN <<FlatSectionLink(course, sec_idx, section.section_title)>>
          ELSE <<>>

\* the lines Section.generate_section_toc appends for the section at
\* position sec_idx, self being the section at position self_idx
section_toc_entry(course, self_idx, sec_idx, write_dirs, no_toc) ==
  LET section == course.sections[sec_idx]
      self    == course.sections[self_idx]
  IN IF write_dirs
     THEN <<SectionIndexLink(course, sec_idx, section.section_title)>>
          \o (IF sec_idx = self_idx
              THEN [k \in 1..Len(self.subsections) |->
                      SubsectionLink(course, sec_idx, k, self.subsections[k])]
                   \o <<FlashcardLink(course, sec_idx, section.section_title,
                                      self.section_title)>>
              ELSE <<>>)
     ELSE IF ~no_toc
          THEN <<FlatSectionLink(course, sec_idx, section.section_title)>>
          ELSE <<>>

RECURSIVE Flatten(_)
Flatten(seqs) == IF seqs = <<>> THEN <<>> ELSE Head(seqs) \o Flatten(Tail(seqs))

\* lines of Section.generate_section_toc before "".join
section_toc_lines(course, self_idx, write_dirs, no_toc) ==
  <<CourseLink(course)>>
  \o Flatten([i \in 1..Len(course.sections) |->
                section_toc_entry(course, self_idx, i, write_dirs, no_toc)])

generate_section_toc(course, self_idx, write_dirs, no_toc) ==
  Join(section_toc_lines(course, self_idx, write_dirs, no_toc))

\* the lines Course.generate_course_template appends for one section
course_toc_entry(course, sec_idx, write_dirs) ==
  LET section == course.sections[sec_idx]
  IN IF write_dirs
     THEN <<SectionIndexLink(course, sec_idx, section.section_title)>>
          \o [k \in 1..Len(section.subsections) |->
                SubsectionLink(course, sec_idx, k, section.subsections[k])]
          \o <<FlashcardLink(course, sec_idx, section.section_title,
                             section.section_title)>>
     ELSE <<FlatSectionLink(course, sec_idx, section.section_title)>>

course_toc_lines(course, write_dirs) ==
  <<CourseLink(course)>>
  \o Flatten([i \in 1..Len(course.sections) |->
                course_toc_entry(course, i, write_dirs)])

generate_course_template(course, write_dirs) ==
  render_markdown(course.short_title \o " - " \o title_of(course.course_title),
                  Join(course_toc_lines(course, write_dirs)), FALSE, MiscBlock)

(***************************************************************************)
(* Section page templates                                                  *)
(***************************************************************************)
section_template(course, section) ==
  render_markdown(
    course.short_title \o " - " \o Fmt02d(section.index) \o "."
      \o Fmt02d(INDEX_PAGE) \o " - " \o title_of(section.section_title),
    section.section_toc, TRUE, MiscBlock)

flashcard_template(course, section) ==
  render_markdown(
    course.short_title \o " - " \o Fmt02d(section.index) \o "."
      \o FmtD(FLASHCARDS_PAGE) \o " - " \o title_of(section.section_title)
      \o " Flashcards",
    section.section_toc,
    FALSE,
    Join([k \in 1..Len(section.subsections) |->
            "## " \o title_of(section.subsections[k]) \o "\n\n\n"]))

\* the trailing block chosen at lines 275-280 and 305-308
extra_block(extra_section) ==
  IF extra_section # None /\ extra_section[1] # ""
  THEN extra_section[1] ELSE DefaultBlock

subsection_template(course, section, sub_idx, extra_section) ==
  render_markdown(
    course.short_title \o " - " \o Fmt02d(section.index) \o "."
      \o Fmt02d(sub_idx) \o " - "
      \o title_of(section.subsections[sub_idx]),
    section.section_toc, TRUE, extra_block(extra_section))

flat_section_template(course, section, extra_section) ==
  render_markdown(
    course.short_title \o " - " \o Fmt02d(section.index) \o " - "
      \o title_of(section.section_title),
    section.section_toc, TRUE, extra_block(extra_section))

(***************************************************************************)
(* Filesystem: the set of directories and the contents of the files.  A    *)
(* path is the sequence of its non-empty components.                       *)
(***************************************************************************)
\* the components of s from position i on, start being where the
\* component that contains position i begins
RECURSIVE SplitSlash(_, _, _)
SplitSlash(s, start, i) ==
  IF i > Len(s)
  THEN (IF start < i THEN <<SubSeq(s, start, i - 1)>> ELSE <<>>)
  ELSE IF CharAt(s, i) = "/"
       THEN (IF start < i THEN <<SubSeq(s, start, i - 1)>> ELSE <<>>)
            \o SplitSlash(s, i + 1, i + 1)
       ELSE SplitSlash(s, start, i + 1)

SplitPath(p) == SplitSlash(p, 1, 1)

Prefixes(comps) == { SubSeq(comps, 1, i) : i \in 0..Len(comps) }

\* os.getcwd()
getcwd == "/w"

\* the working directory before the first run: its directories, the
\* contents of its files, whether a call on it has raised OSError, and the
\* calls of file.write of the current run in order
EmptyFs ==
  [dirs |-> Prefixes(SplitPath(getcwd)), files |-> <<>>, err |-> FALSE,
   writes |-> <<>>]

FilePaths(f) == DOMAIN f.files

\* os.makedirs(path, exist_ok=True) and Path.mkdir(parents=True, exist_ok=True)
\* on the components of a path
mkdir_parents(f, comps) ==
  IF f.err THEN f
  ELSE IF Prefixes(comps) \cap FilePaths(f) # {}
       THEN [f EXCEPT !.err = TRUE]
       ELSE [f EXCEPT !.dirs = @ \cup Prefixes(comps)]

makedirs(f, path) == mkdir_parents(f, SplitPath(path))

\* mutant: the file opened with "a"
written_append(old, text) == old \o text

\* what open(output_file, "w") and file.write(text) leave in the file
written(old, text) == text

open_w_write(f, comps, text) ==
  IF comps \in f.dirs
  THEN [f EXCEPT !.err = TRUE]
  ELSE [f EXCEPT !.files =
          [p \in FilePaths(f) \cup {comps} |->
             IF p = comps
             THEN written(IF comps \in FilePaths(f) THEN f.files[comps] ELSE "",
                          text)
             ELSE f.files[p]],
                  !.writes = Append(@, [path |-> comps, text |-> text])]

\* FileGenerator.create_markdown_file
create_markdown_file(f, filename, template, out_dir) ==
  LET comps == SplitPath(out_dir \o "/" \o filename)
      g     == mkdir_parents(f, SubSeq(comps, 1, Len(comps) - 1))
  IN IF g.err THEN g ELSE open_w_write(g, comps, template)

(***************************************************************************)
(* Course and Section objects                                              *)
(***************************************************************************)
\* Section.__init__
NewSection(section_title) ==
  [slug          |-> slug_of(section_title),
   section_title |-> section_title,
   subsections   |-> <<>>,
   index         |-> 0,
   section_toc   |-> ""]

\* Course.__init__
NewCourse(course_title, short_title, course_number) ==
  [course_title    |-> course_title,
   short_title     |-> short_title,
   course_number   |-> course_number,
   sections        |-> <<>>,
   course_template |-> "",
   slug            |-> ""]

\* os.path.join(dir, name) for a name that does not start with "/"
path_join(dir, name) == dir \o "/" \o name

\* the truth value of self.course_number at line 435
has_course_number(course_number) ==
  course_number # None /\ course_number[1] # 0

\* Course.output_dir
output_dir(course) ==
  IF has_course_number(course.course_number)
  THEN path_join(getcwd, Fmt02d(course.course_number[1]) \o "-" \o course.slug)
  ELSE path_join(getcwd, course.slug)

\* mutant: the course index named by the slug alone
course_index_filename_unnumbered(course) ==
  course.slug \o ".md"

\* f"{INDEX_PAGE:02d}-" + course.slug + ".md"
course_index_filename(course) ==
  Fmt02d(INDEX_PAGE) \o "-" \o course.slug \o ".md"

\* mutant: the position of the section in place of the loop index
subsection_filename_section_index(section_index, index, slug) ==
  Fmt02d(section_index) \o "-" \o slug \o ".md"

\* the filename at line 287; index is the position of the subsection
subsection_filename(section_index, index, slug) ==
  Fmt02d(index) \o "-" \o slug \o ".md"

\* mutant: the number prefix left out
flat_section_filename_no_index(index, slug) ==
  slug \o ".md"

\* the filename at line 316; index is the position of the section
flat_section_filename(index, slug) ==
  Fmt02d(index) \o "-" \o slug \o ".md"

\* one iteration of the loop over self.subsections at lines 270-293
write_subsection(f, course, section, outdir, extra_section, k) ==
  LET slug == slug_of(section.subsections[k])
      f1 == create_markdown_file(f,
              subsection_filename(section.index, k, slug),
              subsection_template(course, section, k, extra_section), outdir)
  IN makedirs(f1, outdir \o "/" \o ReviewDirName \o "/"
                  \o Fmt02d(k) \o "-" \o slug \o "/")

\* the iterations lo..hi of the loop, in order; OSError ends the loop
RECURSIVE write_subsections(_, _, _, _, _, _, _)
write_subsections(f, course, section, outdir, extra_section, lo, hi) ==
  IF lo > hi THEN f
  ELSE IF lo = hi
  THEN write_subsection(f, course, section, outdir, extra_section, lo)
  ELSE
    LET mid == (lo + hi) \div 2
        g == write_subsections(f, course, section, outdir, extra_section,
                               lo, mid)
    IN IF g.err THEN g
       ELSE write_subsections(g, course, section, outdir, extra_section,
                              mid + 1, hi)

\* Section.generate_dir_and_markdown_files, filesystem effect; section is
\* the section with index and section_toc already stored (lines 234-238)
write_section_files(f, index, course, section, write_dirs, extra_section) ==
  IF write_dirs
  THEN
    LET outdir == output_dir(course) \o "/" \o Fmt02d(index) \o "-"
                  \o section.slug
        f1 == makedirs(f, outdir \o "/" \o ReviewDirName \o "/")
        f2 == create_markdown_file(f1,
                Fmt02d(INDEX_PAGE) \o "-" \o section.slug \o ".md",
                section_template(course, section), outdir)
        f3 == create_markdown_file(f2,
                FmtD(FLASHCARDS_PAGE) \o "-flashcards_" \o section.slug
                  \o ".md",
                flashcard_template(course, section), outdir)
        f4 == create_markdown_file(f3, course_index_filename(course),
                course.course_template, output_dir(course))
    IN write_subsections(f4, course, section, outdir, extra_section,
                         1, Len(section.subsections))
  ELSE
    LET outdir == output_dir(course)
        f1 == create_markdown_file(f, course_index_filename(course),
                course.course_template, output_dir(course))
    IN create_markdown_file(f1,
         flat_section_filename(index, section.slug),
         flat_section_template(course, section, extra_section), outdir)

(***************************************************************************)
(* Reading at a prompt                                                     *)
(***************************************************************************)
\* what input() can do at a prompt: return a line, or raise EOFError
Reads(entries) ==
  { [eof |-> FALSE, text |-> e] : e \in entries }
  \cup { [eof |-> TRUE, text |-> ""] }

(***************************************************************************)
(* State                                                                   *)
(***************************************************************************)
VARIABLES
  pc,          \* the statement main is at
  args,        \* the argparse namespace: no_dirs, no_toc, extra
  course,      \* course_number, course_title, short_title, then the Course
  section,     \* the Section whose subsections are being read
  last_read,   \* the latest call of input(): its prompt and what it did
  retries,     \* how many times the current prompt rejected its entry
  transcript,  \* what the section and subsection prompts read, in order
  gen_index,   \* position of the next section in Course.generate_sections
  fs,          \* the filesystem
  exit_code,   \* the exit status of the process, Running until it exits
  run,         \* 1 in the first run, 2 in the repeated run
  fs_first,    \* the filesystem as the first run left it
  title_in,    \* the text handed to handle_title and generate_slug
  title_out,   \* handle_title(title_in), None until it is called
  slug_out,    \* generate_slug(title_in), None until it is called
  slug_again   \* generate_slug(slug_out), None until it is called

text_vars == <<title_in, title_out, slug_out, slug_again>>

program_vars == <<pc, args, course, section, last_read, retries, transcript,
                  gen_index, fs, exit_code, run, fs_first>>

vars == <<pc, args, course, section, last_read, retries, transcript,
          gen_index, fs, exit_code, run, fs_first,
          title_in, title_out, slug_out, slug_again>>

hist == <<last_read, retries, transcript>>

\* locals of main (lines 685-687)
write_dirs == ~args.no_dirs
no_toc == args.no_toc
extra_section == parse_terminal_text(args.extra)

Init ==
  /\ pc = "parse_args"
  /\ args \in [no_dirs : BOOLEAN, no_toc : BOOLEAN, extra : ExtraArgs]
  /\ course = NewCourse("", "", None)
  /\ section = NewSection("")
  /\ last_read = [prompt |-> "none", eof |-> FALSE, text |-> ""]
  /\ retries = 0
  /\ transcript = <<>>
  /\ gen_index = 0
  /\ fs = EmptyFs
  /\ exit_code = Running
  /\ run = 1
  /\ fs_first = EmptyFs
  /\ title_in = ""
  /\ title_out = None
  /\ slug_out = None
  /\ slug_again = None

\* input(prompt) returned r.text, or raised EOFError
Read(prompt, r) ==
  last_read' = [prompt |-> prompt, eof |-> r.eof, text |-> r.text]

\* an exception nobody catches: traceback and exit status 1
Uncaught ==
  /\ pc' = "exit"
  /\ exit_code' = 1

(***************************************************************************)
(* parse_args and the first lines of main                                  *)
(***************************************************************************)
\* mutant: the test on --no-dirs inverted
usage_error_inverted(a) == a.no_toc /\ a.no_dirs

\* the condition of parser.error
usage_error(a) == a.no_toc /\ ~a.no_dirs

parse_args ==
  /\ pc = "parse_args"
  /\ IF usage_error(args)
     THEN /\ pc' = "exit"
          /\ exit_code' = 2
     ELSE /\ pc' = "course_number"
          /\ UNCHANGED exit_code
  /\ UNCHANGED text_vars
  /\ UNCHANGED <<args, course, section, hist, gen_index, fs, run, fs_first>>

(***************************************************************************)
(* get_user_input, one action per prompt                                   *)
(***************************************************************************)
\* line 481: int(course_number) if course_number else None; ok is FALSE
\* when int() raises ValueError
parse_course_number(text) ==
  IF text = "" THEN [ok |-> TRUE, value |-> None]
  ELSE IF IsInt(text) THEN [ok |-> TRUE, value |-> Some(ParseInt(text))]
  ELSE [ok |-> FALSE, value |-> None]

\* mutant: one try block around both loops
after_eof_single_try(prompt) ==
  CASE prompt \in {"subsection_title", "section_title"} -> "generate_course"
    [] OTHER -> "exit"

\* where get_user_input goes when input() raises EOFError at a prompt
after_eof(prompt) ==
  CASE prompt = "subsection_title" -> "section_title"
    [] prompt = "section_title"    -> "generate_course"
    [] OTHER                       -> "exit"

AskCourseNumber ==
  /\ pc = "course_number"
  /\ \E r \in Reads(NumberEntries) :
       /\ Read("course_number", r)
       /\ IF r.eof
          THEN /\ pc' = after_eof("course_number")
               /\ exit_code' = 1
               /\ UNCHANGED <<course, retries>>
          ELSE LET n == parse_course_number(Strip(r.text))
               IN IF n.ok
                  THEN /\ course' = [course EXCEPT !.course_number = n.value]
                       /\ pc' = "course_title"
                       /\ retries' = 0
                       /\ UNCHANGED exit_code
                  ELSE /\ retries < MaxRetries
                       /\ retries' = retries + 1
                       /\ UNCHANGED <<course, pc, exit_code>>
  /\ UNCHANGED text_vars
  /\ UNCHANGED <<args, section, transcript, gen_index, fs, run, fs_first>>

\* mutant: strip() left out
read_course_title_unstripped(entry) == entry

\* line 487: the title the prompt keeps; it asks again when this is empty
read_course_title(entry) == Strip(entry)

AskCourseTitle ==
  /\ pc = "course_title"
  /\ \E r \in Reads(CourseTitleEntries) :
       /\ Read("course_title", r)
       /\ IF r.eof
          THEN /\ pc' = after_eof("course_title")
               /\ exit_code' = 1
               /\ UNCHANGED <<course, retries>>
          ELSE LET text == read_course_title(r.text)
               IN IF text # ""
                  THEN /\ course' = [course EXCEPT !.course_title = text]
                       /\ pc' = "short_title"
                       /\ retries' = 0
                       /\ UNCHANGED exit_code
                  ELSE /\ retries < MaxRetries
                       /\ retries' = retries + 1
                       /\ UNCHANGED <<course, pc, exit_code>>
  /\ UNCHANGED text_vars
  /\ UNCHANGED <<args, section, transcript, gen_index, fs, run, fs_first>>

AskShortTitle ==
  /\ pc = "short_title"
  /\ \E r \in Reads(ShortTitleEntries) :
       /\ Read("short_title", r)
       /\ IF r.eof
          THEN /\ pc' = after_eof("short_title")
               /\ exit_code' = 1
               /\ UNCHANGED course
          ELSE /\ course' = NewCourse(course.course_title, Strip(r.text),
                                      course.course_number)
               /\ pc' = "section_title"
               /\ UNCHANGED exit_code
  /\ UNCHANGED text_vars
  /\ UNCHANGED <<args, section, retries, transcript, gen_index, fs, run,
                 fs_first>>

\* lines 498 and 503: the title read at a section or subsection prompt
read_title(entry) == Strip(entry)

\* mutant: insert(0, section) in place of append
append_section_front(sections, sec) == <<sec>> \o sections

\* course.sections.append(section)
append_section(sections, sec) == Append(sections, sec)

\* Section.add_subsections
add_subsections(sec, subsection_title) ==
  [sec EXCEPT !.subsections = Append(@, subsection_title)]

AskSectionTitle ==
  /\ pc = "section_title"
  /\ \E r \in (IF Len(course.sections) < MaxSections
               THEN Reads(SectionTitleEntries) ELSE Reads({})) :
       /\ Read("section_title", r)
       /\ transcript' = Append(transcript, last_read')
       /\ IF r.eof
          THEN /\ pc' = after_eof("section_title")
               /\ UNCHANGED <<course, section>>
          ELSE IF write_dirs
          THEN /\ section' = NewSection(read_title(r.text))
               /\ pc' = "subsection_title"
               /\ UNCHANGED course
          ELSE /\ section' = NewSection(read_title(r.text))
               /\ course' = [course EXCEPT
                               !.sections = append_section(@, section')]
               /\ UNCHANGED pc
  /\ UNCHANGED text_vars
  /\ UNCHANGED <<args, retries, gen_index, fs, exit_code, run, fs_first>>

AskSubsectionTitle ==
  /\ pc = "subsection_title"
  /\ \E r \in (IF Len(section.subsections) < MaxSubsections
               THEN Reads(SubsectionTitleEntries) ELSE Reads({})) :
       /\ Read("subsection_title", r)
       /\ transcript' = Append(transcript, last_read')
       /\ IF r.eof
          THEN /\ course' = [course EXCEPT
                               !.sections = append_section(@, section)]
               /\ pc' = after_eof("subsection_title")
               /\ UNCHANGED section
          ELSE /\ section' = add_subsections(section, read_title(r.text))
               /\ UNCHANGED <<course, pc>>
  /\ UNCHANGED text_vars
  /\ UNCHANGED <<args, retries, gen_index, fs, exit_code, run, fs_first>>

(***************************************************************************)
(* Course.generate_course, Course.generate_sections                        *)
(***************************************************************************)
generate_course ==
  /\ pc = "generate_course"
  /\ LET c1 == [course EXCEPT !.slug = slug_of(course.course_title)]
     IN course' = [c1 EXCEPT
                     !.course_template = generate_course_template(c1, write_dirs)]
  /\ gen_index' = 1
  /\ pc' = "generate_sections"
  /\ UNCHANGED text_vars
  /\ UNCHANGED <<args, section, hist, fs, exit_code, run, fs_first>>

\* one iteration of the loop of generate_sections: the call of
\* Section.generate_dir_and_markdown_files for the section at gen_index
generate_dir_and_markdown_files ==
  /\ pc = "generate_sections"
  /\ gen_index <= Len(course.sections)
  /\ LET sec1 == [course.sections[gen_index] EXCEPT
                    !.index = gen_index,
                    !.section_toc =
                       generate_section_toc(course, gen_index, write_dirs, no_toc)]
         c1   == [course EXCEPT !.sections[gen_index] = sec1]
         f1   == write_section_files(fs, gen_index, c1, sec1, write_dirs,
                                     extra_section)
     IN /\ course' = c1
        /\ fs' = f1
        /\ IF f1.err
           THEN Uncaught /\ UNCHANGED gen_index
           ELSE /\ gen_index' = gen_index + 1
                /\ UNCHANGED <<pc, exit_code>>
  /\ UNCHANGED text_vars
  /\ UNCHANGED <<args, section, hist, run, fs_first>>

\* generate_sections has run through every section: main returns
main_return ==
  /\ pc = "generate_sections"
  /\ gen_index > Len(course.sections)
  /\ pc' = "exit"
  /\ exit_code' = 0
  /\ UNCHANGED text_vars
  /\ UNCHANGED <<args, course, section, hist, gen_index, fs, run, fs_first>>

\* the Course that get_user_input returned, before generate_course
as_collected(c) ==
  [NewCourse(c.course_title, c.short_title, c.course_number)
   EXCEPT !.sections =
     [i \in 1..Len(c.sections) |->
        [NewSection(c.sections[i].section_title)
         EXCEPT !.subsections = c.sections[i].subsections]]]

\* the program is started again with the same flags and the same entries,
\* in the same working directory, and reaches generate_course again
Rerun ==
  /\ pc = "exit"
  /\ exit_code = 0
  /\ run = 1
  /\ run' = 2
  /\ fs_first' = fs
  /\ course' = as_collected(course)
  /\ pc' = "generate_course"
  /\ exit_code' = Running
  /\ gen_index' = 0
  /\ fs' = [fs EXCEPT !.writes = <<>>]
  /\ UNCHANGED text_vars
  /\ UNCHANGED <<args, section, hist>>

Next ==
  \/ parse_args
  \/ AskCourseNumber
  \/ AskCourseTitle
  \/ AskShortTitle
  \/ AskSectionTitle
  \/ AskSubsectionTitle
  \/ generate_course
  \/ generate_dir_and_markdown_files
  \/ main_return
  \/ Rerun

Spec == Init /\ [][Next]_vars

(***************************************************************************)
(* Generation on its own: main from the return of get_user_input on, for   *)
(* Courses longer and of other titles than the prompts above offer.        *)
(***************************************************************************)
\* a section title and the subsection titles entered beneath it
Entered1(section_title, subsections) ==
  [section_title |-> section_title, subsections |-> subsections]

\* ninety-eight blank subsection titles and a ninety-ninth that reads like
\* the flashcard page of a section titled "x"
NinetyNine == [k \in 1..99 |-> IF k = 99 THEN "flashcards x" ELSE ""]

\* what can have been entered at the section and subsection prompts
EnteredSections ==
  { <<>>,
    << Entered1("p|q", << "r|s" >>) >>,
    << Entered1("x", NinetyNine) >>,
    << Entered1("x", << "", "x", "x" >>), Entered1("x", <<>>),
       Entered1("", << "" >>) >> }
  \cup { << Entered1(t, u) >> : t \in { "", "x" }, u \in { <<>>, << "y" >> } }
  \cup { << Entered1(t1, << "y" >>), Entered1(t2, << t1 >>) >> :
            t1 \in { "", "x" }, t2 \in { "x", "a b" } }

\* the Course get_user_input returns for these entries; in flat mode no
\* subsection is ever read
course_of(course_title, short_title, course_number, entered, dirs) ==
  [NewCourse(course_title, short_title, course_number)
   EXCEPT !.sections =
     [i \in 1..Len(entered) |->
        [NewSection(entered[i].section_title)
         EXCEPT !.subsections =
           IF dirs THEN entered[i].subsections ELSE <<>>]]]

GenInit ==
  /\ pc = "generate_course"
  /\ args \in { a \in [no_dirs : BOOLEAN, no_toc : BOOLEAN, extra : { None }] :
                  ~usage_error(a) }
  /\ \E n \in { None, Some(7) }, entered \in EnteredSections :
        course = course_of("c", "CS", n, entered, ~args.no_dirs)
  /\ section = NewSection("")
  /\ last_read = [prompt |-> "section_title", eof |-> TRUE, text |-> ""]
  /\ retries = 0
  /\ transcript = <<>>
  /\ gen_index = 0
  /\ fs = EmptyFs
  /\ exit_code = Running
  /\ run = 1
  /\ fs_first = EmptyFs
  /\ title_in = ""
  /\ title_out = None
  /\ slug_out = None
  /\ slug_again = None

GenNext ==
  \/ generate_course
  \/ generate_dir_and_markdown_files
  \/ main_return

GenSpec == GenInit /\ [][GenNext]_vars

(***************************************************************************)
(* handle_title and generate_slug called on their own, as the unit tests   *)
(* call them, on every text of Texts.                                      *)
(***************************************************************************)
TextInit ==
  /\ title_in \in Texts
  /\ title_out = None
  /\ slug_out = None
  /\ slug_again = None
  /\ pc = "exit"
  /\ args = [no_dirs |-> FALSE, no_toc |-> FALSE, extra |-> None]
  /\ course = NewCourse("", "", None)
  /\ section = NewSection("")
  /\ last_read = [prompt |-> "none", eof |-> FALSE, text |-> ""]
  /\ retries = 0
  /\ transcript = <<>>
  /\ gen_index = 0
  /\ fs = EmptyFs
  /\ exit_code = 0
  /\ run = 1
  /\ fs_first = EmptyFs

call_handle_title ==
  /\ title_out = None
  /\ title_out' = Some(handle_title(title_in))
  /\ UNCHANGED <<title_in, slug_out, slug_again>>
  /\ UNCHANGED program_vars

call_generate_slug ==
  /\ slug_out = None
  /\ slug_out' = Some(generate_slug(title_in))
  /\ UNCHANGED <<title_in, title_out, slug_again>>
  /\ UNCHANGED program_vars

\* generate_slug applied to its own result
call_generate_slug_again ==
  /\ slug_out # None
  /\ slug_again = None
  /\ slug_again' = Some(generate_slug(slug_out[1]))
  /\ UNCHANGED <<title_in, title_out, slug_out>>
  /\ UNCHANGED program_vars

TextNext ==
  \/ call_handle_title
  \/ call_generate_slug
  \/ call_generate_slug_again

TextSpec == TextInit /\ [][TextNext]_vars

(***************************************************************************)
(* Vocabulary of the properties                                            *)
(***************************************************************************)
\* get_user_input has returned its Course
Returned == pc \in {"generate_course", "generate_sections"}
            \/ (pc = "exit" /\ exit_code = 0)

\* the run has gone through generation and exited with status 0
Completed == pc = "exit" /\ exit_code = 0

NumSections == Len(course.sections)
NumSubsections(i) == Len(course.sections[i].subsections)

RECURSIVE SumSubsections(_)
SumSubsections(i) ==
  IF i = 0 THEN 0 ELSE NumSubsections(i) + SumSubsections(i - 1)

\* the course output directory, as path components
OutDir == SplitPath(output_dir(course))

SectionSlug(i) == slug_of(course.sections[i].section_title)
SubsectionSlug(i, k) == slug_of(course.sections[i].subsections[k])
SectionDirName(i) == Fmt02d(i) \o "-" \o SectionSlug(i)

CourseIndexPath == OutDir \o << "00-" \o slug_of(course.course_title) \o ".md" >>
SectionIndexPath(i) ==
  OutDir \o << SectionDirName(i), "00-" \o SectionSlug(i) \o ".md" >>
FlashcardPath(i) ==
  OutDir \o << SectionDirName(i), "99-flashcards_" \o SectionSlug(i) \o ".md" >>
SubsectionPath(i, k) ==
  OutDir \o << SectionDirName(i),
               Fmt02d(k) \o "-" \o SubsectionSlug(i, k) \o ".md" >>
ReviewRoot(i) == OutDir \o << SectionDirName(i), "100-review_files" >>
ReviewDir(i, k) ==
  ReviewRoot(i) \o << Fmt02d(k) \o "-" \o SubsectionSlug(i, k) >>
FlatSectionPath(i) ==
  OutDir \o << Fmt02d(i) \o "-" \o SectionSlug(i) \o ".md" >>

\* the first position at or after from where pat occurs in s, 0 if none;
\* the text is searched a stretch at a time, each stretch twice as long as
\* the one before
RECURSIVE IndexOfWithin(_, _, _, _)
IndexOfWithin(s, pat, from, width) ==
  LET last == Len(s) - Len(pat) + 1
      upto == IF from + width - 1 < last THEN from + width - 1 ELSE last
      hits == { i \in from..upto : SubSeq(s, i, i + Len(pat) - 1) = pat }
  IN IF from > last THEN 0
     ELSE IF hits # {} THEN CHOOSE i \in hits : \A j \in hits : i <= j
     ELSE IndexOfWithin(s, pat, upto + 1, 2 * width)

IndexOf(s, pat, from) == IndexOfWithin(s, pat, from, 16)

EndsWith(s, suffix) ==
  /\ Len(s) >= Len(suffix)
  /\ SubSeq(s, Len(s) - Len(suffix) + 1, Len(s)) = suffix

\* the text of a rendered page between the "## TOC" heading and the rule
\* that closes the table of contents
TocBlock(content) ==
  LET start == IndexOf(content, "## TOC\n", 1) + 7
      stop  == IndexOf(content, "\n---\n", start - 1)
  IN SubSeq(content, start, stop - 1)

HasLinkLine(text) == IndexOf(text, "[[", 1) # 0

(***************************************************************************)
(* C1: In directory mode, a completed run over S >= 1 sections, section i  *)
(* having k_i subsections, leaves exactly these files: the course index,   *)
(* and per section its index, its flashcard file and one file per          *)
(* subsection; exactly these directories: the output directory, and per    *)
(* section its directory, its 100-review_files directory and in it one     *)
(* (empty) directory per subsection; 1 + 2*S + sum(k_i) files in total.    *)
(***************************************************************************)
DirModeFiles ==
  {CourseIndexPath}
  \cup UNION { {SectionIndexPath(i), FlashcardPath(i)}
               \cup { SubsectionPath(i, k) : k \in 1..NumSubsections(i) }
               : i \in 1..NumSections }

DirModeDirs ==
  Prefixes(OutDir)
  \cup UNION { {OutDir \o <<SectionDirName(i)>>, ReviewRoot(i)}
               \cup { ReviewDir(i, k) : k \in 1..NumSubsections(i) }
               : i \in 1..NumSections }

FlatModeFiles ==
  {CourseIndexPath} \cup { FlatSectionPath(i) : i \in 1..NumSections }

C2_FlatLayout ==
  (Completed /\ ~write_dirs /\ NumSections >= 1) =>
     /\ FilePaths(fs) = FlatModeFiles
     /\ Cardinality(FilePaths(fs)) = 1 + NumSections
     /\ fs.dirs = Prefixes(OutDir)

C2_Witness ==
  /\ Completed /\ ~write_dirs /\ run = 1
  /\ NumSections = 2
  /\ course.sections[1].section_title = course.sections[2].section_title
  /\ Cardinality(FilePaths(fs)) = 3

RECURSIVE UpToEof(_, _)
UpToEof(t, i) ==
  IF i > Len(t) \/ t[i].eof THEN <<>>
  ELSE <<t[i].text>> \o UpToEof(t, i + 1)

\* the sections the entries of t, from position i on, describe in
\* directory mode: a title, its subsections up to end-of-input, and so on
RECURSIVE EnteredDir(_, _)
EnteredDir(t, i) ==
  IF i > Len(t) \/ t[i].eof THEN <<>>
  ELSE LET subs == UpToEof(t, i + 1)
       IN <<[title |-> t[i].text, subsections |-> subs]>>
          \o EnteredDir(t, i + Len(subs) + 2)

\* the sections the entries of t describe in flat mode
EnteredFlat(t) ==
  [i \in 1..Len(UpToEof(t, 1)) |->
     [title |-> UpToEof(t, 1)[i], subsections |-> <<>>]]

Entered == IF write_dirs THEN EnteredDir(transcript, 1)
           ELSE EnteredFlat(transcript)

Collected ==
  [i \in 1..NumSections |->
     [title       |-> course.sections[i].section_title,
      subsections |-> course.sections[i].subsections]]

StripAll(titles) == [k \in 1..Len(titles) |-> Strip(titles[k])]

EnteredStripped ==
  [i \in 1..Len(Entered) |->
     [title       |-> Strip(Entered[i].title),
      subsections |-> StripAll(Entered[i].subsections)]]

PromptOrder ==
  /\ \A i \in 1..Len(transcript) :
       /\ ~write_dirs => transcript[i].prompt = "section_title"
       /\ (transcript[i].prompt = "subsection_title" /\ transcript[i].eof
           /\ i < Len(transcript))
             => transcript[i + 1].prompt = "section_title"
       /\ (transcript[i].prompt = "section_title" /\ transcript[i].eof)
             => i = Len(transcript) /\ Returned
  /\ (transcript # <<>> /\ transcript[Len(transcript)].prompt = "subsection_title"
      /\ transcript[Len(transcript)].eof)
        => pc = "section_title"

C4_AsEntered ==
  Returned => Collected = Entered

C4_AsEnteredStripped ==
  /\ PromptOrder
  /\ Returned => Collected = EnteredStripped

C4_Witness ==
  /\ Returned /\ write_dirs
  /\ NumSections = 2
  /\ NumSubsections(1) = 2 /\ NumSubsections(2) = 0
  /\ course.sections[1].section_title # course.sections[2].section_title
  /\ course.sections[1].subsections[1] # course.sections[1].subsections[2]

(***************************************************************************)
(* C5: An entry at the course-number prompt that is neither blank nor an   *)
(* integer, and an entry at the course-title prompt that is blank once     *)
(* stripped, leave the program at the same prompt with nothing stored.  An *)
(* accepted entry stores the integer (None for a blank entry) or the       *)
(* stripped title and moves to the next prompt; the stored values are the  *)
(* ones the returned Course carries, and its title is never empty.         *)
(***************************************************************************)
C5_Step ==
  /\ (pc = "course_number" /\ ~last_read'.eof) =>
       LET text == Strip(last_read'.text)
       IN IF text = ""
          THEN course'.course_number = None /\ pc' = "course_title"
          ELSE IF IsInt(text)
          THEN course'.course_number = Some(ParseInt(text))
               /\ pc' = "course_title"
          ELSE pc' = "course_number" /\ course' = course
  /\ (pc = "course_title" /\ ~last_read'.eof) =>
       LET text == Strip(last_read'.text)
       IN IF text = ""
          THEN pc' = "course_title" /\ course' = course
          ELSE course'.course_title = text /\ pc' = "short_title"
  /\ pc # "course_number" => course'.course_number = course.course_number
  /\ pc # "course_title" => course'.course_title = course.course_title
  /\ Returned' => course'.course_title # ""

C5_Reprompt == [][C5_Step]_vars

C5_Witness ==
  /\ pc = "course_title" /\ retries = 1
  /\ last_read.prompt = "course_title" /\ Strip(last_read.text) = ""
  /\ course.course_number = Some(7)

(***************************************************************************)
(* C6 (as stated): end-of-input at any prompt never ends the program with  *)
(* a failure.                                                              *)
(* C6 (amended): end-of-input at the subsection prompt returns to the      *)
(* section-title prompt and end-of-input at the section-title prompt       *)
(* returns the Course, after which the program can only exit with status   *)
(* 0; end-of-input at the course-number, course-title or short-title       *)
(* prompt ends the program with status 1 and nothing written.              *)
(***************************************************************************)
C6_EofNeverFails ==
  (pc = "exit" /\ last_read.eof) => exit_code = 0

C6_EofInLoopsOnly ==
  /\ (last_read.eof /\ last_read.prompt = "subsection_title") =>
        pc = "section_title" /\ exit_code = Running
  /\ (last_read.eof /\ last_read.prompt = "section_title") => Returned
  /\ (last_read.eof /\ last_read.prompt \in
        {"course_number", "course_title", "short_title"}) =>
        pc = "exit" /\ exit_code = 1 /\ fs = EmptyFs

C6_Witness ==
  /\ Completed /\ write_dirs /\ run = 1
  /\ last_read.eof /\ last_read.prompt = "section_title"
  /\ NumSections = 1 /\ NumSubsections(1) = 1
  /\ FilePaths(fs) # {}

(***************************************************************************)
(* C7: when the program has run a second time on the same input in the     *)
(* same directory, the filesystem is what the first run left: the same     *)
(* directories, the same files, the same contents.                         *)
(***************************************************************************)
C7_RerunIdentical ==
  (run = 2 /\ pc = "exit") => fs = fs_first

C7_Witness ==
  /\ run = 2 /\ pc = "exit" /\ exit_code = 0
  /\ write_dirs /\ NumSections = 2 /\ NumSubsections(1) = 1
  /\ Cardinality(FilePaths(fs)) >= 6

(***************************************************************************)
(* C8: after a completed run in flat mode with --no-toc, the table of      *)
(* contents of every section file contains no link line.                   *)
(***************************************************************************)
C8_NoLinkLine ==
  (Completed /\ ~write_dirs /\ no_toc) =>
     \A i \in 1..NumSections :
        ~HasLinkLine(TocBlock(fs.files[FlatSectionPath(i)]))

(***************************************************************************)
(* C9: after a completed run, every subsection file (directory mode) or    *)
(* section file (flat mode) ends with the text given to --extra when the   *)
(* flag was given, and with the default block when it was not.             *)
(***************************************************************************)
SuppliedBlock ==
  IF args.extra = None THEN DefaultBlock ELSE unicode_escape(args.extra[1])

C9_TrailingBlock ==
  Completed =>
     \A i \in 1..NumSections :
        IF write_dirs
        THEN \A k \in 1..NumSubsections(i) :
               EndsWith(fs.files[SubsectionPath(i, k)],
                        "\n---\n" \o SuppliedBlock)
        ELSE EndsWith(fs.files[FlatSectionPath(i)], "\n---\n" \o SuppliedBlock)

(***************************************************************************)
(* C10: after a completed run with at least one section, the one directory *)
(* created in the working directory is named NN-<course_slug> when a       *)
(* course number was entered and <course_slug> when it was left blank.     *)
(***************************************************************************)
C10_OutputDirName ==
  (Completed /\ NumSections >= 1) =>
     { d \in fs.dirs : Len(d) = 2 } =
        { SplitPath(getcwd) \o
          << IF course.course_number = None
             THEN slug_of(course.course_title)
             ELSE Fmt02d(course.course_number[1]) \o "-"
                  \o slug_of(course.course_title) >> }

(***************************************************************************)
(* C11: for every text, handle_title leaves the whitespace separators as   *)
(* they are, upper-cases every word that matches the Roman-numeral         *)
(* pattern, capitalizes the first word, writes in lower case every minor   *)
(* word that is not the first word, and capitalizes every other word.      *)
(***************************************************************************)
\* the position, among the parts of the split text, of the first word
FirstWordAt(parts) ==
  IF \E i \in 1..Len(parts) : i % 2 = 1 /\ parts[i] # ""
  THEN CHOOSE i \in 1..Len(parts) :
         /\ i % 2 = 1 /\ parts[i] # ""
         /\ \A j \in 1..(i - 1) : j % 2 = 0 \/ parts[j] = ""
  ELSE 0

C11_TitleCase ==
  title_out # None =>
    LET parts == re_split_ws(title_in)
        outs  == re_split_ws(title_out[1])
    IN /\ Len(outs) = Len(parts)
       /\ \A i \in 1..Len(parts) :
            outs[i] = IF i % 2 = 0 THEN parts[i]
                      ELSE IF rom_regex(parts[i]) THEN Upper(parts[i])
                      ELSE IF i = FirstWordAt(parts) THEN Capitalize(parts[i])
                      ELSE IF parts[i] \in lower_case_words THEN Lower(parts[i])
                      ELSE Capitalize(parts[i])

(***************************************************************************)
(* C12: for every title, generate_slug(title) contains none of the         *)
(* characters ( ) / : ? ! , ' and no space and no upper-case letter, and   *)
(* generate_slug applied to the slug returns the slug.                     *)
(***************************************************************************)
SlugForbidden ==
  { "(", ")", "/", ":", "?", "!", ",", "'", " " } \cup DOMAIN ToLowerTable

C12_SlugCleanIdempotent ==
  /\ slug_out # None =>
        \A i \in 1..Len(slug_out[1]) : CharAt(slug_out[1], i) \notin SlugForbidden
  /\ slug_again # None => slug_again = slug_out

\* a title with brackets, a slash, a colon, a space, an exclamation mark
\* and an upper-case letter has been slugified twice
C12_Witness ==
  /\ slug_again # None
  /\ \A c \in { "(", "/", ":", " ", "!", "B" } : IndexOf(title_in, c, 1) # 0

(***************************************************************************)
(* C13: after a completed run in directory mode, the table of contents of  *)
(* every page of section i (its index, its flashcard page, its subsection  *)
(* pages) is the course link, then one top-level line per section in       *)
(* insertion order numbered by position, with indented lines beneath       *)
(* section i only: its subsections in order, numbered i.01, i.02, ...,     *)
(* then its flashcard link.  The table of contents of the course index has *)
(* the same top-level lines with the indented lines beneath every section. *)
(***************************************************************************)
\* the lines of a text, each without the newline that ends it
RECURSIVE LinesFrom(_, _)
LinesFrom(s, from) ==
  IF from > Len(s) THEN <<>>
  ELSE LET nl == IndexOf(s, "\n", from)
       IN IF nl = 0 THEN << SubSeq(s, from, Len(s)) >>
          ELSE << SubSeq(s, from, nl - 1) >> \o LinesFrom(s, nl + 1)

TocLines(path) == LinesFrom(TocBlock(fs.files[path]), 1)

CourseLinkLine ==
  "- [[00-" \o slug_of(course.course_title) \o "|" \o course.short_title
  \o " - " \o title_of(course.course_title) \o "]]"

TopLinkLine(j) ==
  "- [[00-" \o SectionSlug(j) \o "|" \o course.short_title \o " - "
  \o Fmt02d(j) \o ".00 - " \o title_of(course.sections[j].section_title)
  \o "]]"

SubLinkLine(j, k) ==
  "\t- [[" \o Fmt02d(k) \o "-" \o SubsectionSlug(j, k) \o "|"
  \o course.short_title \o " - " \o Fmt02d(j) \o "." \o Fmt02d(k) \o " - "
  \o title_of(course.sections[j].subsections[k]) \o "]]"

FlashLinkLine(j) ==
  "\t- [[99-flashcards_" \o SectionSlug(j) \o "|" \o course.short_title
  \o " - " \o Fmt02d(j) \o ".99 - "
  \o title_of(course.sections[j].section_title) \o " Flashcards]]"

IndentedLines(j) ==
  [k \in 1..NumSubsections(j) |-> SubLinkLine(j, k)] \o << FlashLinkLine(j) >>

\* the table of contents with indented lines beneath the sections of open
RECURSIVE TocFrom(_, _)
TocFrom(j, open) ==
  IF j > NumSections THEN <<>>
  ELSE << TopLinkLine(j) >>
       \o (IF j \in open THEN IndentedLines(j) ELSE <<>>)
       \o TocFrom(j + 1, open)

PagesOf(i) ==
  { SectionIndexPath(i), FlashcardPath(i) }
  \cup { SubsectionPath(i, k) : k \in 1..NumSubsections(i) }

C13_DirectoryToc ==
  (Completed /\ write_dirs /\ NumSections >= 1) =>
     /\ \A i \in 1..NumSections : \A p \in PagesOf(i) :
           TocLines(p) = << CourseLinkLine >> \o TocFrom(1, { i })
     /\ TocLines(CourseIndexPath)
           = << CourseLinkLine >> \o TocFrom(1, 1..NumSections)

\* two sections of the same title, the first with two subsections and the
\* second with one, have been generated in directory mode
C13_Witness ==
  /\ Completed /\ write_dirs
  /\ NumSections = 2
  /\ course.sections[1].section_title = course.sections[2].section_title
  /\ NumSubsections(1) = 2
  /\ NumSubsections(2) = 1

(***************************************************************************)
(* C14: after a completed run with at least one section, in either mode    *)
(* and with or without --no-toc, the target of every wikilink in the table *)
(* of contents of every generated file is the name, without ".md", of a    *)
(* file written in that run; target and file name being the same text,     *)
(* they begin with the same number.                                        *)
(***************************************************************************)
\* the targets of the wikilinks of a text: what stands between "[[" and
\* the first "|" after it
LinkTargets(toc) ==
  { SubSeq(toc, i + 2, IndexOf(toc, "|", i + 2) - 1) :
      i \in { j \in 1..(Len(toc) - 1) : SubSeq(toc, j, j + 1) = "[[" } }

\* the names, without ".md", of the files written in this run
WrittenNames ==
  { SubSeq(w.path[Len(w.path)], 1, Len(w.path[Len(w.path)]) - 3) :
      w \in { fs.writes[i] : i \in 1..Len(fs.writes) } }

C14_LinkIntegrity ==
  (Completed /\ NumSections >= 1) =>
     \A p \in FilePaths(fs) :
        LinkTargets(TocBlock(fs.files[p])) \subseteq WrittenNames

(***************************************************************************)
(* C15: within one run no two pages are written to the same path, also     *)
(* when titles repeat or are blank; the one path written more than once is *)
(* the course index, written once per section with the same content.       *)
(***************************************************************************)
WritesTo(path) == { i \in 1..Len(fs.writes) : fs.writes[i].path = path }

C15_NoOverwrite ==
  /\ \A i, j \in 1..Len(fs.writes) :
        (i < j /\ fs.writes[i].path = fs.writes[j].path) =>
           /\ fs.writes[i].path = CourseIndexPath
           /\ fs.writes[i].text = fs.writes[j].text
  /\ Completed => Cardinality(WritesTo(CourseIndexPath)) = NumSections

(***************************************************************************)
(* C16: after a completed run the course index file exists if and only if  *)
(* the course has at least one section; a run in which no section was      *)
(* entered creates no file and no directory, in either mode.               *)
(***************************************************************************)
C16_IndexIffSections ==
  Completed =>
     /\ (CourseIndexPath \in FilePaths(fs)) <=> (NumSections >= 1)
     /\ NumSections = 0 => fs = EmptyFs

\* end-of-input at the first section-title prompt, and the run went on
\* through generation to exit
C16_Witness ==
  /\ Completed
  /\ NumSections = 0
  /\ last_read = [prompt |-> "section_title", eof |-> TRUE, text |-> ""]

====
